---- MODULE Spec2Model ----
(***************************************************************************)
(* Model of the document indexer and loader of the second-brain app        *)
(* (lib/documents: getAllDocuments, getDocument) and of the listing        *)
(* route GET /api/documents, and of the list view that fetches it         *)
(* (app/page.tsx: Home).                                                   *)
(*                                                                         *)
(* Strings are sequences of tokens.  The tokens "-", " ", ".md" and "s"    *)
(* are always tokens of their own, no other token contains one of the      *)
(* first three, and no token of a name, a title or a date is a prefix of   *)
(* another one, so that                                                    *)
(* endsWith('.md'), replace('.md', ''), replace(/-/g, ' '), slice(0, -1)   *)
(* and the comparison of two strings are computed on the tokens exactly    *)
(* as the code computes them on the characters.                            *)
(* A path is the sequence of its segments below BRAIN_PATH; an identifier  *)
(* is the sequence of the segments that id.split('/') returns.             *)
(***************************************************************************)
EXTENDS Integers, Sequences, FiniteSets, TLC

VARIABLES fs, request, response, home

vars == <<fs, request, response, home>>

(***************************************************************************)
(* Bounds of the model.                                                    *)
(***************************************************************************)
\* number of files of a general tree
MaxFiles == 2
\* number of files of a tree of dated and undated documents
MaxSortFiles == 3
\* number of files of a tree shown in the list view
MaxHomeFiles == 3
\* number of files of a tree of documents with sections
MaxLoaderFiles == 3

(***************************************************************************)
(* Strings.                                                                *)
(***************************************************************************)
Empty == <<>>

RECURSIVE SeqMap(_, _)
\* s with every token t replaced by f[t] when t is in the domain of f
SeqMap(f, s) ==
  IF s = <<>> THEN <<>>
  ELSE <<IF s[1] \in DOMAIN f THEN f[s[1]] ELSE s[1]>> \o SeqMap(f, Tail(s))

\* String.prototype.endsWith('.md')
EndsWithMd(s) == Len(s) > 0 /\ s[Len(s)] = ".md"

RECURSIVE ReplaceMd(_)
\* String.prototype.replace('.md', ''): only the FIRST occurrence goes
ReplaceMd(s) ==
  IF s = <<>> THEN <<>>
  ELSE IF s[1] = ".md" THEN Tail(s)
  ELSE <<s[1]>> \o ReplaceMd(Tail(s))

\* String.prototype.replace(/-/g, ' ')
ReplaceDashes(s) == SeqMap([t \in {"-"} |-> " "], s)

\* String.prototype.slice(0, -1) on a string whose last character is a token
Slice0m1(s) == IF s = <<>> THEN <<>> ELSE SubSeq(s, 1, Len(s) - 1)

\* the tokens in the order of the default collation of localeCompare:
\* white space, punctuation, digits, then letters regardless of case
Collation == <<" ", "-", ".md", "01", "06", "2024", "2026", "28",
               "A", "B", "foo", "my", "plan", "readme", "sections", "x", "y",
               "Zed">>

Rank(order, t) == CHOOSE i \in 1..Len(order) : order[i] = t

RECURSIVE Compare(_, _, _)
\* -1, 0 or 1: a before, equal to or after b, by the first difference
Compare(order, a, b) ==
  IF a = <<>> /\ b = <<>> THEN 0
  ELSE IF a = <<>> THEN -1
  ELSE IF b = <<>> THEN 1
  ELSE IF a[1] = b[1] THEN Compare(order, Tail(a), Tail(b))
  ELSE IF Rank(order, a[1]) < Rank(order, b[1]) THEN -1 ELSE 1

\* String.prototype.localeCompare
localeCompare(a, b) == Compare(Collation, a, b)

(***************************************************************************)
(* JavaScript values: undefined, a string, an array of strings.            *)
(***************************************************************************)
Undef == [t |-> "undefined", s |-> <<>>, a |-> <<>>]
Str(x) == [t |-> "string", s |-> x, a |-> <<>>]
Arr(x) == [t |-> "array", s |-> <<>>, a |-> x]

\* ToBoolean: undefined and '' are falsy, every array is truthy
Truthy(v) == \/ v.t = "array"
             \/ v.t = "string" /\ v.s # <<>>

\* a || b
Or(a, b) == IF Truthy(a) THEN a ELSE b

Fields == {"title", "date", "tags", "summary"}

(***************************************************************************)
(* File contents.  A text is what fs.readFileSync returns; matter() and    *)
(* JSON.parse() are applied to it.                                         *)
(*   fmt "md":      a markdown text, frontmatter `data`, body `body`       *)
(*   fmt "json":    a JSON text: an object with the properties `data`      *)
(*                  (jt "object"), null (jt "null"), or a string, number   *)
(*                  or array (jt "other")                                  *)
(*   fmt "plain":   a text that has no frontmatter and is no JSON          *)
(***************************************************************************)
FM(title, date, tags, summary) ==
  [title |-> title, date |-> date, tags |-> tags, summary |-> summary]

NoData == FM(Undef, Undef, Undef, Undef)

Md(data, body) == [fmt |-> "md", data |-> data, body |-> body, jt |-> "none"]
Json(jt, data) == [fmt |-> "json", data |-> data, body |-> "json text", jt |-> jt]
Plain == [fmt |-> "plain", data |-> NoData, body |-> "plain text", jt |-> "none"]
NoText == [fmt |-> "none", data |-> NoData, body |-> "", jt |-> "none"]

\* gray-matter's matter(text): { data, content }
matter(text) ==
  IF text.fmt = "md" THEN [data |-> text.data, content |-> text.body]
  ELSE [data |-> NoData, content |-> text.body]

\* JSON.parse(text): threw is a SyntaxError
JSONparse(text) ==
  IF text.fmt = "json" THEN [threw |-> FALSE, t |-> text.jt, data |-> text.data]
  ELSE [threw |-> TRUE, t |-> "none", data |-> NoData]

\* the object literal {}
EmptyObject == [t |-> "object", data |-> NoData]

(***************************************************************************)
(* The filesystem below BRAIN_PATH: a function from the paths that exist   *)
(* to nodes.  A node that is not ok makes readFileSync and readdirSync     *)
(* throw (EACCES).                                                         *)
(***************************************************************************)
Dir(ok) == [kind |-> "dir", ok |-> ok, text |-> NoText]
File(ok, text) == [kind |-> "file", ok |-> ok, text |-> text]

\* fs.existsSync
existsSync(f, p) == p \in DOMAIN f

\* fs.statSync(p).isDirectory(), Dirent.isDirectory()
isDirectory(f, p) == f[p].kind = "dir"

\* the names in the directory p
Children(f, p) ==
  {q[Len(q)] : q \in {r \in DOMAIN f : Len(r) = Len(p) + 1 /\ SubSeq(r, 1, Len(p)) = p}}

RECURSIVE SetToSeq(_)
\* the order in which the filesystem enumerates a set of names
SetToSeq(S) ==
  IF S = {} THEN <<>>
  ELSE LET x == CHOOSE y \in S : TRUE IN <<x>> \o SetToSeq(S \ {x})

\* fs.readdirSync(p): threw when p is no directory or cannot be read
readdirSync(f, p) ==
  IF p \in DOMAIN f /\ f[p].kind = "dir" /\ f[p].ok
  THEN [threw |-> FALSE, names |-> SetToSeq(Children(f, p))]
  ELSE [threw |-> TRUE, names |-> <<>>]

\* fs.readFileSync(p, 'utf-8'): threw when p is a directory or cannot be read
readFileSync(f, p) ==
  IF p \in DOMAIN f /\ f[p].kind = "file" /\ f[p].ok
  THEN [threw |-> FALSE, text |-> f[p].text]
  ELSE [threw |-> TRUE, text |-> NoText]

\* path.join(dir, name)
pathJoin(dir, name) == Append(dir, name)

(***************************************************************************)
(* Metadata resolver.                                                      *)
(***************************************************************************)
bodyMd == <<"body", ".md">>
indexMd == <<"index", ".md">>
metaJson == <<"meta.json">>
sectionsDir == <<"sections">>

\* getMetaFromFile(metaPath): whatever JSON.parse returns, {} when the file
\* is absent or reading or parsing it throws
getMetaFromFile(f, metaPath) ==
  IF existsSync(f, metaPath)
  THEN LET r == readFileSync(f, metaPath)
           j == JSONparse(r.text)
       IN IF r.threw \/ j.threw THEN EmptyObject ELSE [t |-> j.t, data |-> j.data]
  ELSE EmptyObject

\* const { data, content } = matter(fileContent) on what readFileSync gave
parseFile(r) ==
  [threw |-> r.threw,
   content |-> IF r.threw THEN "" ELSE matter(r.text).content,
   frontmatter |-> IF r.threw THEN NoData ELSE matter(r.text).data]

\* let filePath = bodyPath; if (!exists(bodyPath) && exists(indexPath)) ...
bodyFilePath(f, docPath) ==
  IF ~existsSync(f, pathJoin(docPath, bodyMd)) /\ existsSync(f, pathJoin(docPath, indexMd))
  THEN pathJoin(docPath, indexMd) ELSE pathJoin(docPath, bodyMd)

\* getBodyContent(docPath): { content, frontmatter }; threw when
\* readFileSync throws
getBodyContent(f, docPath) ==
  IF existsSync(f, bodyFilePath(f, docPath))
  THEN parseFile(readFileSync(f, bodyFilePath(f, docPath)))
  ELSE IF docPath # <<>> /\ EndsWithMd(docPath[Len(docPath)]) /\ existsSync(f, docPath)
  THEN parseFile(readFileSync(f, docPath))
  ELSE [threw |-> FALSE, content |-> "", frontmatter |-> NoData]

\* meta.<key>: undefined on a string, number or array
MetaProp(meta, key) == IF meta.t = "object" THEN meta.data[key] ELSE Undef

\* reading frontmatter.<key> || meta.<key> for the four keys throws a
\* TypeError when meta is null and meta.<key> is evaluated
MetaThrows(frontmatter, meta) ==
  meta.t = "null" /\ \E k \in Fields : ~Truthy(frontmatter[k])

\* a DocumentMeta record
DocumentMeta(id, title, type, category, date, tags, summary) ==
  [id |-> id, title |-> title, type |-> type, category |-> category,
   date |-> date, tags |-> tags, summary |-> summary]

\* the record pushed for a document folder or a subdocument folder
FolderMeta(id, name, type, category, frontmatter, meta) ==
  DocumentMeta(id,
    Or(Or(frontmatter.title, MetaProp(meta, "title")), Str(ReplaceDashes(name))),
    Slice0m1(type),
    category,
    Or(frontmatter.date, MetaProp(meta, "date")),
    Or(Or(frontmatter.tags, MetaProp(meta, "tags")), Arr(<<>>)),
    Or(frontmatter.summary, MetaProp(meta, "summary")))

\* the record pushed for a markdown file inside a category folder
SubFileMeta(id, name, type, category, frontmatter) ==
  DocumentMeta(id,
    Or(frontmatter.title, Str(ReplaceDashes(name))),
    Slice0m1(type),
    category,
    frontmatter.date,
    Or(frontmatter.tags, Arr(<<>>)),
    frontmatter.summary)

\* the record pushed for a markdown file directly in a type folder
FlatFileMeta(id, name, type, frontmatter) ==
  DocumentMeta(id,
    Or(frontmatter.title, Str(name)),
    Slice0m1(type),
    Undef,
    Or(frontmatter.date, Str(name)),
    Or(frontmatter.tags, Arr(<<>>)),
    frontmatter.summary)

(***************************************************************************)
(* Tree walker.  The walk carries the documents array as it stands and     *)
(* whether an exception has left the function: [threw, documents].         *)
(***************************************************************************)
projects == <<"project", "s">>
journals == <<"journal", "s">>
concepts == <<"concept", "s">>

\* const types = ['projects', 'journals', 'concepts']
types == <<projects, journals, concepts>>

Throw(acc) == [threw |-> TRUE, documents |-> acc.documents]
Push(acc, doc) == [threw |-> FALSE, documents |-> Append(acc.documents, doc)]

\* the body of `for (const subEntry of subEntries)`, given what
\* getMetaFromFile and getBodyContent return for subPath
SubEntryBody(f, type, entryName, subName, acc, meta, b) ==
  IF isDirectory(f, <<type, entryName, subName>>)
  THEN IF b.threw \/ MetaThrows(b.frontmatter, meta) THEN Throw(acc)
       ELSE Push(acc, FolderMeta(<<type, entryName, subName>>, subName, type,
                                 Str(entryName), b.frontmatter, meta))
  ELSE IF EndsWithMd(subName)
  THEN IF b.threw THEN Throw(acc)
       ELSE Push(acc, SubFileMeta(<<type, entryName, ReplaceMd(subName)>>,
                                  ReplaceMd(subName), type, Str(entryName),
                                  b.frontmatter))
  ELSE acc

SubEntryStep(f, type, entryName, subName, acc) ==
  IF acc.threw THEN acc
  ELSE SubEntryBody(f, type, entryName, subName, acc,
                    getMetaFromFile(f, <<type, entryName, subName, metaJson>>),
                    getBodyContent(f, <<type, entryName, subName>>))

RECURSIVE SubEntryLoop(_, _, _, _, _)
SubEntryLoop(f, type, entryName, subEntries, acc) ==
  IF subEntries = <<>> THEN acc
  ELSE SubEntryLoop(f, type, entryName, Tail(subEntries),
                    SubEntryStep(f, type, entryName, Head(subEntries), acc))

\* subEntries.some(e => e.name === 'body.md' || e.name === 'index.md')
hasBody(names) ==
  \E i \in 1..Len(names) : names[i] = bodyMd \/ names[i] = indexMd

\* the body of `for (const entry of entries)`, given what readdirSync,
\* getMetaFromFile and getBodyContent return for entryPath
EntryBody(f, type, entryName, acc, subEntries, meta, b) ==
  IF isDirectory(f, <<type, entryName>>)
  THEN IF subEntries.threw THEN Throw(acc)
       ELSE IF hasBody(subEntries.names)
       THEN IF b.threw \/ MetaThrows(b.frontmatter, meta) THEN Throw(acc)
            ELSE Push(acc, FolderMeta(<<type, entryName>>, entryName, type,
                                      IF type = projects THEN Str(entryName) ELSE Undef,
                                      b.frontmatter, meta))
       ELSE SubEntryLoop(f, type, entryName, subEntries.names, acc)
  ELSE IF EndsWithMd(entryName)
  THEN IF b.threw THEN Throw(acc)
       ELSE Push(acc, FlatFileMeta(<<type, ReplaceMd(entryName)>>,
                                   ReplaceMd(entryName), type, b.frontmatter))
  ELSE acc

EntryStep(f, type, entryName, acc) ==
  IF acc.threw THEN acc
  ELSE EntryBody(f, type, entryName, acc,
                 readdirSync(f, <<type, entryName>>),
                 getMetaFromFile(f, <<type, entryName, metaJson>>),
                 getBodyContent(f, <<type, entryName>>))

RECURSIVE EntryLoop(_, _, _, _)
EntryLoop(f, type, entries, acc) ==
  IF entries = <<>> THEN acc
  ELSE EntryLoop(f, type, Tail(entries), EntryStep(f, type, Head(entries), acc))

\* const entries = fs.readdirSync(typePath, ...); for (const entry of entries)
TypeBody(f, type, acc, entries) ==
  IF entries.threw THEN Throw(acc) ELSE EntryLoop(f, type, entries.names, acc)

\* the body of `for (const type of types)`
TypeStep(f, type, acc) ==
  IF acc.threw \/ ~existsSync(f, <<type>>) THEN acc
  ELSE TypeBody(f, type, acc, readdirSync(f, <<type>>))

RECURSIVE TypeLoop(_, _, _)
TypeLoop(f, ts, acc) ==
  IF ts = <<>> THEN acc
  ELSE TypeLoop(f, Tail(ts), TypeStep(f, Head(ts), acc))

\* the comparator with the dates compared the other way round
compareDocsAscending(a, b) ==
  IF Truthy(a.date) /\ Truthy(b.date) THEN localeCompare(a.date.s, b.date.s)
  ELSE IF Truthy(a.date) THEN -1
  ELSE IF Truthy(b.date) THEN 1
  ELSE localeCompare(a.title.s, b.title.s)

\* the comparator of documents.sort
compareDocs(a, b) ==
  IF Truthy(a.date) /\ Truthy(b.date) THEN localeCompare(b.date.s, a.date.s)
  ELSE IF Truthy(a.date) THEN -1
  ELSE IF Truthy(b.date) THEN 1
  ELSE localeCompare(a.title.s, b.title.s)

RECURSIVE Insert(_, _)
\* x placed behind every element of the sorted sequence that is not after it
Insert(x, sorted) ==
  IF sorted = <<>> THEN <<x>>
  ELSE IF compareDocs(x, Head(sorted)) < 0 THEN <<x>> \o sorted
  ELSE <<Head(sorted)>> \o Insert(x, Tail(sorted))

RECURSIVE SortFrom(_, _)
SortFrom(documents, sorted) ==
  IF documents = <<>> THEN sorted
  ELSE SortFrom(Tail(documents), Insert(Head(documents), sorted))

\* Array.prototype.sort with the comparator: a stable sort
Sort(documents) == SortFrom(documents, <<>>)

\* return documents.sort(...), unless an exception has left the function
Sorted(acc) ==
  IF acc.threw THEN acc ELSE [threw |-> FALSE, documents |-> Sort(acc.documents)]

\* getAllDocuments(): the sorted array, or threw with the array as it
\* stood when the exception left the function
getAllDocuments(f) == Sorted(TypeLoop(f, types, [threw |-> FALSE, documents |-> <<>>]))

(***************************************************************************)
(* Document loader.                                                        *)
(***************************************************************************)
\* the segments '..' and '.'; the token "." occurs in no other string
dotdot == <<".", ".">>
dot == <<".">>

RECURSIVE Normalize(_, _)
\* path.join(BRAIN_PATH, id), relative to BRAIN_PATH: empty and '.'
\* segments go, '..' takes the last segment away; a path that leaves
\* BRAIN_PATH starts with '..'
Normalize(segments, path) ==
  IF segments = <<>> THEN path
  ELSE LET seg == Head(segments)
       IN IF seg = Empty \/ seg = dot THEN Normalize(Tail(segments), path)
          ELSE IF seg = dotdot /\ path # <<>> /\ path[Len(path)] # dotdot
          THEN Normalize(Tail(segments), SubSeq(path, 1, Len(path) - 1))
          ELSE Normalize(Tail(segments), Append(path, seg))

\* BRAIN_PATH: the directory named by the environment, or ~/second-brain
BRAIN_PATH == <<"second", "-", "brain">>

\* docPath + '.md'
AppendMd(docPath) ==
  IF docPath = <<>> THEN <<dotdot, BRAIN_PATH \o <<".md">>>>
  ELSE [docPath EXCEPT ![Len(docPath)] = @ \o <<".md">>]

\* a Document record; sections is undefined when the property is not set
Document(meta, content, sections) ==
  [id |-> meta.id, title |-> meta.title, type |-> meta.type,
   category |-> meta.category, date |-> meta.date, tags |-> meta.tags,
   summary |-> meta.summary, content |-> content, sections |-> sections]

NoDocument ==
  Document(DocumentMeta(<<>>, Undef, Empty, Undef, Undef, Undef, Undef), "", Undef)

RECURSIVE SectionNames(_)
\* .filter(f => f.endsWith('.md')).map(f => f.replace('.md', ''))
SectionNames(names) ==
  IF names = <<>> THEN <<>>
  ELSE IF EndsWithMd(Head(names))
  THEN <<ReplaceMd(Head(names))>> \o SectionNames(Tail(names))
  ELSE SectionNames(Tail(names))

\* let actualPath = docPath; if (!exists(docPath)) actualPath = docPath + '.md'
actualPathOf(f, id) ==
  IF existsSync(f, Normalize(id, <<>>)) THEN Normalize(id, <<>>)
  ELSE AppendMd(Normalize(id, <<>>))

\* sections = readdirSync(sectionsPath) when the path exists, [] otherwise
listSections(f, sectionsPath) ==
  IF existsSync(f, sectionsPath) THEN readdirSync(f, sectionsPath)
  ELSE [threw |-> FALSE, names |-> <<>>]

NotFound == [threw |-> FALSE, found |-> FALSE, document |-> NoDocument]
Raised == [threw |-> TRUE, found |-> FALSE, document |-> NoDocument]
Found(document) == [threw |-> FALSE, found |-> TRUE, document |-> document]

\* const type = parts[0].slice(0, -1)
typeOf(parts) == Slice0m1(parts[1])

\* category: parts.length > 2 ? parts[1] : undefined
categoryOf(parts) == IF Len(parts) > 2 THEN Str(parts[2]) ELSE Undef

\* the branches of getDocument behind the existence test, given what
\* getMetaFromFile, getBodyContent and readdirSync return for actualPath
LoadBody(id, isDir, meta, b, listed) ==
  IF isDir
  THEN IF b.threw \/ listed.threw \/ MetaThrows(b.frontmatter, meta) THEN Raised
       ELSE Found(Document(
              DocumentMeta(id,
                Or(Or(b.frontmatter.title, MetaProp(meta, "title")),
                   Str(ReplaceDashes(id[Len(id)]))),
                typeOf(id),
                categoryOf(id),
                Or(b.frontmatter.date, MetaProp(meta, "date")),
                Or(Or(b.frontmatter.tags, MetaProp(meta, "tags")), Arr(<<>>)),
                Or(b.frontmatter.summary, MetaProp(meta, "summary"))),
              b.content, Arr(SectionNames(listed.names))))
  ELSE IF b.threw THEN Raised
       ELSE Found(Document(
              DocumentMeta(id,
                Or(b.frontmatter.title, Str(ReplaceDashes(id[Len(id)]))),
                typeOf(id),
                categoryOf(id),
                Or(b.frontmatter.date, Str(id[Len(id)])),
                Or(b.frontmatter.tags, Arr(<<>>)),
                b.frontmatter.summary),
              b.content, Undef))

\* getDocument(id) with actualPath computed
LoadFrom(f, id, actualPath) ==
  IF ~existsSync(f, actualPath) THEN NotFound
  ELSE LoadBody(id, isDirectory(f, actualPath),
                getMetaFromFile(f, pathJoin(actualPath, metaJson)),
                getBodyContent(f, actualPath),
                listSections(f, pathJoin(actualPath, sectionsDir)))

\* getDocument(id): null (found FALSE), a Document, or threw
getDocument(f, id) == LoadFrom(f, id, actualPathOf(f, id))

\* the locations getBodyContent(docPath) tests for existence or reads
touchedByBody(f, docPath) ==
  {pathJoin(docPath, bodyMd), bodyFilePath(f, docPath)}
  \cup (IF existsSync(f, pathJoin(docPath, bodyMd)) THEN {}
        ELSE {pathJoin(docPath, indexMd)})
  \cup (IF ~existsSync(f, bodyFilePath(f, docPath))
           /\ docPath # <<>> /\ EndsWithMd(docPath[Len(docPath)])
        THEN {docPath} ELSE {})

\* the locations getDocument tests or reads behind the existence test
touchedBehind(f, actualPath) ==
  IF ~existsSync(f, actualPath) THEN {}
  ELSE IF isDirectory(f, actualPath)
  THEN {actualPath, pathJoin(actualPath, metaJson), pathJoin(actualPath, sectionsDir)}
       \cup touchedByBody(f, actualPath)
  ELSE {actualPath} \cup touchedByBody(f, actualPath)

\* the locations getDocument(id) tests for existence, stats or reads
touched(f, id) ==
  {Normalize(id, <<>>), actualPathOf(f, id)}
  \cup touchedBehind(f, actualPathOf(f, id))

(***************************************************************************)
(* The listing route.                                                      *)
(***************************************************************************)
\* a handler that answers with the documents collected before the failure
RespondPartial(r) ==
  [status |-> IF r.documents = <<>> /\ r.threw THEN 500 ELSE 200,
   documents |-> r.documents,
   error |-> IF r.documents = <<>> /\ r.threw THEN "Failed to fetch documents" ELSE ""]

\* the try block and its catch, given what getAllDocuments() does
Respond(r) ==
  IF r.threw
  THEN [status |-> 500, documents |-> <<>>, error |-> "Failed to fetch documents"]
  ELSE [status |-> 200, documents |-> r.documents, error |-> ""]

\* GET /api/documents
GET(f) == Respond(getAllDocuments(f))

(***************************************************************************)
(* The trees the model starts from.                                        *)
(***************************************************************************)
notes == <<"note", "s">>
foo == <<"foo">>
fooMd == <<"foo", ".md">>
myPlan == <<"my", "-", "plan">>
myPlanMd == <<"my", "-", "plan", ".md">>
dayMd == <<"2026", "-", "01", "-", "28", ".md">>
oddMd == <<"x", ".md", "y", ".md">>
xMd == <<"x", ".md">>
Zed == <<"Zed">>
ZedMd == <<"Zed", ".md">>
readme == <<"readme">>

Jan1 == <<"2024", "-", "01", "-", "01">>
Jun1 == <<"2024", "-", "06", "-", "01">>

MdNone == Md(NoData, "text")
MdA == Md(FM(Str(<<"A">>), Undef, Undef, Undef), "text of A")
MdFull == Md(FM(Str(<<"A">>), Str(Jun1), Arr(<<<<"tag1">>>>), Str(<<"sum">>)), "full text")
MdBlank == Md(FM(Str(Empty), Str(Empty), Arr(<<>>), Str(Empty)), "blank text")
MdJan == Md(FM(Undef, Str(Jan1), Undef, Undef), "text")
MdJun == Md(FM(Undef, Str(Jun1), Undef, Undef), "text")

MetaB == Json("object", FM(Str(<<"B">>), Str(Jan1), Undef, Undef))
MetaFull == Json("object", FM(Str(<<"B">>), Str(Jan1), Arr(<<<<"tag2">>>>), Str(<<"msum">>)))
MetaNull == Json("null", NoData)
MetaOther == Json("other", NoData)

Entry(path, node) == [path |-> path, node |-> node]

Files(path, texts) == {Entry(path, File(TRUE, t)) : t \in texts}

\* the entries a general tree is made of
GeneralEntries ==
  Files(<<projects, fooMd>>, {MdNone, MdFull})
  \cup Files(<<projects, foo, bodyMd>>, {MdNone, MdA, MdBlank, MdFull})
  \cup Files(<<projects, foo, indexMd>>, {MdA})
  \cup Files(<<projects, foo, metaJson>>, {MetaB, MetaFull, MetaNull, MetaOther, Plain})
  \cup Files(<<projects, foo, myPlanMd>>, {MdNone, MdFull})
  \cup Files(<<projects, foo, myPlan, bodyMd>>, {MdNone})
  \cup Files(<<projects, foo, myPlan, metaJson>>, {MetaB, MetaNull})
  \cup Files(<<projects, foo, oddMd>>, {MdNone})
  \cup Files(<<projects, foo, readme>>, {Plain})
  \cup Files(<<journals, dayMd>>, {MdNone, MdA})
  \cup Files(<<journals, myPlan, bodyMd>>, {MdNone})
  \cup Files(<<journals, myPlan, metaJson>>, {MetaB})
  \cup Files(<<journals, oddMd>>, {MdNone})
  \cup Files(<<concepts, foo, indexMd>>, {MdNone})
  \cup Files(<<notes, fooMd>>, {MdNone})
  \cup {Entry(<<projects, foo, myPlan>>, Dir(TRUE)),
        Entry(<<projects, foo>>, Dir(FALSE)),
        Entry(<<projects, foo, bodyMd>>, File(FALSE, MdA)),
        Entry(<<journals, myPlan, bodyMd>>, File(FALSE, MdA))}

\* the entries of a tree of dated and undated documents
SortEntries ==
  Files(<<journals, ZedMd>>, {MdNone})
  \cup Files(<<journals, fooMd>>, {MdNone, MdJan, MdJun})
  \cup Files(<<journals, xMd>>, {MdJan})
  \cup Files(<<concepts, foo, indexMd>>, {MdNone, MdA, MdJun})
  \cup Files(<<concepts, Zed, bodyMd>>, {MdNone})
  \cup Files(<<concepts, myPlan, bodyMd>>, {MdNone})
  \cup Files(<<projects, foo, xMd>>, {MdNone})

RECURSIVE UpTo(_, _)
\* the subsets of E of at most n elements
UpTo(E, n) ==
  IF n = 0 THEN {{}}
  ELSE {S \cup T : S \in UpTo(E, n - 1), T \in {{}} \cup {{e} : e \in E}}

Prefixes(path) == {SubSeq(path, 1, n) : n \in 0..Len(path)}

\* no path twice, and nothing below a file
Consistent(S) ==
  \A a, b \in S :
    a # b => /\ a.path # b.path
             /\ ~(a.node.kind = "file" /\ a.path \in Prefixes(b.path))

\* the node at p in the tree that holds the entries of S
NodeAt(S, p) ==
  IF \E e \in S : e.path = p THEN (CHOOSE e \in S : e.path = p).node
  ELSE Dir(TRUE)

\* the tree that holds the entries of S: the directories above an entry exist
Tree(S) ==
  [p \in UNION {Prefixes(e.path) : e \in S} \cup {<<>>} |-> NodeAt(S, p)]

Trees ==
  {Tree(S) : S \in {T \in UpTo(GeneralEntries, MaxFiles) : Consistent(T)}}
  \cup {Tree(S) : S \in {T \in UpTo(SortEntries, MaxSortFiles) : Consistent(T)}}

(***************************************************************************)
(* The state of the list view: the useState cells of Home, and whether     *)
(* the fetch of its effect has been answered.                              *)
(***************************************************************************)
all == <<"all">>

\* { projects: {}, journals: [], concepts: [] }; the properties of
\* `projects` are kept in the order of their insertion
NoGroups == [projects |-> <<>>, journals |-> <<>>, concepts |-> <<>>]

\* useState([]), useState({...}), useState('all'), useState('')
InitialHome ==
  [documents |-> <<>>, isArray |-> TRUE, grouped |-> NoGroups,
   activeTab |-> all, searchQuery |-> <<>>, fetched |-> FALSE]

(***************************************************************************)
(* The state machine: the tree is read-only; a request is served from it.  *)
(***************************************************************************)
NoRequest == [op |-> "none", id |-> <<Empty>>]

NoResponse ==
  [status |-> 0, documents |-> <<>>, error |-> "",
   threw |-> FALSE, found |-> FALSE, document |-> NoDocument]

\* the response to GET /api/documents
ListResponse(g) ==
  [NoResponse EXCEPT !.status = g.status, !.documents = g.documents,
                     !.error = g.error]

\* the outcome of a call of getDocument
LoadResponse(r) ==
  [NoResponse EXCEPT !.threw = r.threw, !.found = r.found,
                     !.document = r.document]

\* the identifier of the entry at a path
IdOf(path) == IF path = <<>> THEN <<Empty>> ELSE path

IdsIn(documents) == {documents[i].id : i \in 1..Len(documents)}

\* the identifiers requested: those of the listing, every path of the tree,
\* the same paths reached through 'projects/..', and one that names nothing
Ids(f) ==
  IdsIn(getAllDocuments(f).documents)
  \cup {IdOf(p) : p \in DOMAIN f}
  \cup {<<projects, dotdot>> \o p : p \in DOMAIN f}
  \cup {<<projects, <<"nope">>>>}

Init ==
  /\ fs \in Trees
  /\ request = NoRequest
  /\ response = NoResponse
  /\ home = InitialHome

\* a client requests GET /api/documents
ListDocuments ==
  /\ request' = [op |-> "list", id |-> <<Empty>>]
  /\ response' = ListResponse(GET(fs))
  /\ UNCHANGED <<fs, home>>

\* a caller asks getDocument(id)
LoadDocument ==
  \E id \in Ids(fs) :
    /\ request' = [op |-> "get", id |-> id]
    /\ response' = LoadResponse(getDocument(fs, id))
    /\ UNCHANGED <<fs, home>>

Next == ListDocuments \/ LoadDocument

Spec == Init /\ [][Next]_vars

(***************************************************************************)
(* The loader on trees of documents with sections.                         *)
(***************************************************************************)
secretMd == <<"secret", ".md">>

\* the entries of a tree of documents with sections; '..' is the directory
\* that holds BRAIN_PATH
LoaderEntries ==
  Files(<<projects, foo, bodyMd>>, {MdNone, MdFull})
  \cup Files(<<projects, foo, indexMd>>, {MdA})
  \cup Files(<<projects, foo, metaJson>>, {MetaFull})
  \cup Files(<<projects, foo, sectionsDir, xMd>>, {MdNone})
  \cup Files(<<projects, foo, sectionsDir, myPlanMd>>, {MdNone})
  \cup Files(<<projects, foo, sectionsDir, oddMd>>, {MdNone})
  \cup Files(<<projects, foo, sectionsDir, readme>>, {Plain})
  \cup Files(<<projects, foo, sectionsDir>>, {Plain})
  \cup Files(<<projects, foo, myPlanMd>>, {MdNone, MdA})
  \cup Files(<<projects, foo, readme>>, {Plain})
  \cup Files(<<projects, fooMd>>, {MdFull})
  \cup Files(<<journals, dayMd>>, {MdNone})
  \cup Files(<<journals, metaJson>>, {MetaFull})
  \cup Files(<<notes, fooMd>>, {MdNone})
  \cup Files(<<dotdot, secretMd>>, {MdA})

LoaderTrees ==
  {Tree(S) : S \in {T \in UpTo(LoaderEntries, MaxLoaderFiles) : Consistent(T)}}

LoaderInit ==
  /\ fs \in LoaderTrees
  /\ request = NoRequest
  /\ response = NoResponse
  /\ home = InitialHome

LoaderSpec == LoaderInit /\ [][LoadDocument]_vars

(***************************************************************************)
(* The list view (Home).  The search compares characters, so the strings   *)
(* of a record are spelled out: a text is the sequence of its characters.  *)
(***************************************************************************)
\* the characters of a token
Chars(t) ==
  CASE t = ".md" -> <<".", "m", "d">>
    [] t = "01" -> <<"0", "1">>
    [] t = "06" -> <<"0", "6">>
    [] t = "28" -> <<"2", "8">>
    [] t = "2024" -> <<"2", "0", "2", "4">>
    [] t = "2026" -> <<"2", "0", "2", "6">>
    [] t = "Zed" -> <<"Z", "e", "d">>
    [] t = "foo" -> <<"f", "o", "o">>
    [] t = "my" -> <<"m", "y">>
    [] t = "plan" -> <<"p", "l", "a", "n">>
    [] t = "readme" -> <<"r", "e", "a", "d", "m", "e">>
    [] t = "tag1" -> <<"t", "a", "g", "1">>
    [] t = "tag2" -> <<"t", "a", "g", "2">>
    [] t = "sum" -> <<"s", "u", "m">>
    [] t = "msum" -> <<"m", "s", "u", "m">>
    [] OTHER -> <<t>>

RECURSIVE Spell(_)
\* the characters of a string of tokens
Spell(s) == IF s = <<>> THEN <<>> ELSE Chars(s[1]) \o Spell(Tail(s))

UpperCase == <<"A", "B", "C", "D", "E", "F", "G", "H", "I", "J", "K", "L", "M",
               "N", "O", "P", "Q", "R", "S", "T", "U", "V", "W", "X", "Y", "Z">>
LowerCase == <<"a", "b", "c", "d", "e", "f", "g", "h", "i", "j", "k", "l", "m",
               "n", "o", "p", "q", "r", "s", "t", "u", "v", "w", "x", "y", "z">>

\* String.prototype.toLowerCase
toLowerCase(text) ==
  [i \in 1..Len(text) |->
     IF \E k \in 1..26 : UpperCase[k] = text[i]
     THEN LowerCase[CHOOSE k \in 1..26 : UpperCase[k] = text[i]]
     ELSE text[i]]

\* String.prototype.includes
includes(text, q) ==
  \E i \in 0..(Len(text) - Len(q)) : SubSeq(text, i + 1, i + Len(q)) = q

\* doc.title.toLowerCase().includes(q) || doc.summary?.toLowerCase().includes(q)
\*   || doc.tags?.some(t => t.toLowerCase().includes(q))
matchesQuery(doc, q) ==
  \/ includes(toLowerCase(Spell(doc.title.s)), q)
  \/ doc.summary.t = "string" /\ includes(toLowerCase(Spell(doc.summary.s)), q)
  \/ doc.tags.t = "array"
       /\ \E i \in 1..Len(doc.tags.a) : includes(toLowerCase(Spell(doc.tags.a[i])), q)

\* the callback of documents.filter
keep(doc, h) ==
  IF h.searchQuery # <<>> THEN matchesQuery(doc, toLowerCase(h.searchQuery))
  ELSE IF h.activeTab = all THEN TRUE
  ELSE doc.type = Slice0m1(h.activeTab)

RECURSIVE filterDocs(_, _)
filterDocs(documents, h) ==
  IF documents = <<>> THEN <<>>
  ELSE (IF keep(documents[1], h) THEN <<documents[1]>> ELSE <<>>)
       \o filterDocs(Tail(documents), h)

\* const filteredDocs = documents.filter(...)
filteredDocs(h) == filterDocs(h.documents, h)

(***************************************************************************)
(* The grouping of the fetched documents.  g.projects is a plain object:   *)
(* g.projects[cat] of a category that names a property of                  *)
(* Object.prototype is that property, which is truthy and has no push.     *)
(***************************************************************************)
ObjectPrototype ==
  {<<"constructor">>, <<"__proto__">>, <<"hasOwnProperty">>, <<"isPrototypeOf">>,
   <<"propertyIsEnumerable">>, <<"toLocaleString">>, <<"toString">>, <<"valueOf">>,
   <<"__defineGetter__">>, <<"__defineSetter__">>, <<"__lookupGetter__">>,
   <<"__lookupSetter__">>}

uncategorized == <<"uncategorized">>

\* const cat = doc.category || 'uncategorized'
catOf(doc) == IF Truthy(doc.category) THEN doc.category.s ELSE uncategorized

HasOwn(groups, cat) == \E i \in 1..Len(groups) : groups[i].category = cat

\* g.projects[cat].push(doc) on an own property
PushTo(groups, cat, doc) ==
  [i \in 1..Len(groups) |->
     IF groups[i].category = cat
     THEN [category |-> cat, docs |-> Append(groups[i].docs, doc)]
     ELSE groups[i]]

\* if (!g.projects[cat]) g.projects[cat] = []; g.projects[cat].push(doc)
groupProject(acc, cat, doc) ==
  IF HasOwn(acc.g.projects, cat)
  THEN [acc EXCEPT !.g.projects = PushTo(acc.g.projects, cat, doc)]
  ELSE IF cat \in ObjectPrototype
  THEN [acc EXCEPT !.threw = TRUE]
  ELSE [acc EXCEPT !.g.projects = Append(acc.g.projects,
                                         [category |-> cat, docs |-> <<doc>>])]

\* the body of `for (const doc of data)`
groupStep(acc, doc) ==
  IF doc.type = <<"project">> THEN groupProject(acc, catOf(doc), doc)
  ELSE IF doc.type = <<"journal">>
  THEN [acc EXCEPT !.g.journals = Append(acc.g.journals, doc)]
  ELSE IF doc.type = <<"concept">>
  THEN [acc EXCEPT !.g.concepts = Append(acc.g.concepts, doc)]
  ELSE acc

RECURSIVE groupLoop(_, _)
groupLoop(data, acc) ==
  IF data = <<>> \/ acc.threw THEN acc
  ELSE groupLoop(Tail(data), groupStep(acc, data[1]))

\* the callback .then(data => ...) on an array: setDocuments(data), and
\* setGrouped(g) when the loop has not raised, given what the loop does
setBoth(h, data, acc) ==
  [h EXCEPT !.documents = data, !.isArray = TRUE, !.fetched = TRUE,
            !.grouped = IF acc.threw THEN h.grouped ELSE acc.g]

\* the callback .then(data => ...): the body of a 500 is an object, which
\* setDocuments stores and `for ... of` cannot iterate
thenData(h, res) ==
  IF res.status = 200
  THEN setBoth(h, res.documents, groupLoop(res.documents, [threw |-> FALSE, g |-> NoGroups]))
  ELSE [h EXCEPT !.documents = <<>>, !.isArray = FALSE, !.fetched = TRUE]

RECURSIVE flat(_)
\* Object.entries(grouped.projects).map(([category, docs]) => docs.map(...))
flat(groups) ==
  IF groups = <<>> THEN <<>> ELSE groups[1].docs \o flat(Tail(groups))

\* what a render of Home shows in <main>: the cards of the grouped project
\* view or of the flat list; documents.filter raises when `documents` is
\* no array
render(h) ==
  IF ~h.isArray THEN [threw |-> TRUE, cards |-> <<>>]
  ELSE IF h.activeTab = projects /\ h.searchQuery = <<>>
  THEN [threw |-> FALSE, cards |-> flat(h.grouped.projects)]
  ELSE [threw |-> FALSE, cards |-> filteredDocs(h)]

(***************************************************************************)
(* The trees and the queries of the list view.                             *)
(***************************************************************************)
constructor == <<"constructor">>

HomeEntries ==
  Files(<<projects, foo, bodyMd>>, {MdNone, MdFull})
  \cup Files(<<projects, constructor, bodyMd>>, {MdA})
  \cup Files(<<projects, xMd>>, {MdNone})
  \cup Files(<<projects, myPlan, foo, bodyMd>>, {MdNone})
  \cup Files(<<journals, dayMd>>, {MdNone, MdFull})
  \cup Files(<<journals, myPlan, bodyMd>>, {MdNone})
  \cup Files(<<concepts, Zed, bodyMd>>, {MdNone})
  \cup Files(<<concepts, foo, metaJson>>, {MetaFull})
  \cup Files(<<concepts, foo, indexMd>>, {MdNone})
  \cup {Entry(<<journals, myPlan, bodyMd>>, File(FALSE, MdA))}

HomeTrees ==
  {Tree(S) : S \in {T \in UpTo(HomeEntries, MaxHomeFiles) : Consistent(T)}}

\* what is typed into the search box
Queries ==
  {<<>>, <<"a">>, <<"E", "d">>, <<"t", "a", "g">>, <<"S", "U", "M">>, <<"q">>}

Tabs == {all, projects, journals, concepts}

(***************************************************************************)
(* The state machine of the list view.                                     *)
(***************************************************************************)
HomeInit ==
  /\ fs \in HomeTrees
  /\ request = NoRequest
  /\ response = NoResponse
  /\ home = InitialHome

\* the answer to fetch('/api/documents') arrives
FetchAnswered(g) ==
  /\ request' = [op |-> "list", id |-> <<Empty>>]
  /\ response' = ListResponse(g)
  /\ home' = thenData(home, g)
  /\ UNCHANGED fs

\* useEffect(() => { fetch('/api/documents')... }, [])
FetchDocuments ==
  /\ ~home.fetched
  /\ FetchAnswered(GET(fs))

\* onClick={() => setActiveTab(tab)}
SetActiveTab ==
  \E tab \in Tabs :
    /\ home' = [home EXCEPT !.activeTab = tab]
    /\ UNCHANGED <<fs, request, response>>

\* onChange={(e) => setSearchQuery(e.target.value)}
SetSearchQuery ==
  \E q \in Queries :
    /\ home' = [home EXCEPT !.searchQuery = q]
    /\ UNCHANGED <<fs, request, response>>

HomeNext == FetchDocuments \/ SetActiveTab \/ SetSearchQuery

HomeSpec == HomeInit /\ [][HomeNext]_vars

(***************************************************************************)
(* What the tree holds, read off the tree and not off the walk.            *)
(***************************************************************************)
Listed == request.op = "list"
Loaded == request.op = "get"

TypeFolders == {projects, journals, concepts}

\* the directories directly under a type folder
EntryFolders(f) ==
  {p \in DOMAIN f : Len(p) = 2 /\ p[1] \in TypeFolders /\ f[p].kind = "dir"}

HasPrimaryBody(f, p) == pathJoin(p, bodyMd) \in DOMAIN f \/ pathJoin(p, indexMd) \in DOMAIN f

DocumentFolders(f) == {p \in EntryFolders(f) : HasPrimaryBody(f, p)}
CategoryFolders(f) == {p \in EntryFolders(f) : ~HasPrimaryBody(f, p)}

SubFolders(f) ==
  {p \in DOMAIN f : Len(p) = 3 /\ SubSeq(p, 1, 2) \in CategoryFolders(f) /\ f[p].kind = "dir"}

SubFiles(f) ==
  {p \in DOMAIN f : /\ Len(p) = 3 /\ SubSeq(p, 1, 2) \in CategoryFolders(f)
                    /\ f[p].kind = "file" /\ EndsWithMd(p[3])}

FlatFiles(f) ==
  {p \in DOMAIN f : /\ Len(p) = 2 /\ p[1] \in TypeFolders
                    /\ f[p].kind = "file" /\ EndsWithMd(p[2])}

\* the name without its extension: the final ".md" taken away
WithoutExtension(name) ==
  IF EndsWithMd(name) THEN SubSeq(name, 1, Len(name) - 1) ELSE name

\* every node of the tree can be read
AllReadable(f) == \A p \in DOMAIN f : f[p].ok

\* the records of a listing with the identifier id
Records(documents, id) == {i \in 1..Len(documents) : documents[i].id = id}

(***************************************************************************)
(* C1  Round trip: getDocument(m.id) of every record m that                *)
(* getAllDocuments() returns is a Document, not null, with the id, title,  *)
(* type, category, date, tags and summary of m.                            *)
(***************************************************************************)
SameMeta(d, m) ==
  /\ d.id = m.id /\ d.title = m.title /\ d.type = m.type
  /\ d.category = m.category /\ d.date = m.date /\ d.tags = m.tags
  /\ d.summary = m.summary

RoundTrip(listing, id, loaded) ==
  \A i \in 1..Len(listing.documents) :
    (~listing.threw /\ listing.documents[i].id = id)
      => /\ ~loaded.threw /\ loaded.found
         /\ SameMeta(loaded.document, listing.documents[i])

C1_RoundTrip == Loaded => RoundTrip(getAllDocuments(fs), request.id, response)

(***************************************************************************)
(* C2  Identifier uniqueness: no two records of the listing that           *)
(* getAllDocuments() returns have the same id.                             *)
(***************************************************************************)
C2_UniqueIds ==
  Listed =>
    \A i, j \in 1..Len(response.documents) :
      i # j => response.documents[i].id # response.documents[j].id

(***************************************************************************)
(* C3  Ordering of the listing: every document with a date precedes every *)
(* document without one, the dated documents are in descending order of    *)
(* their date, the undated ones in ascending order of their title.         *)
(***************************************************************************)
Dated(d) == Truthy(d.date)

OrderedBy(order, documents) ==
  \A i, j \in 1..Len(documents) :
    i < j =>
      /\ Dated(documents[j]) => Dated(documents[i])
      /\ (Dated(documents[i]) /\ Dated(documents[j]))
           => Compare(order, documents[i].date.s, documents[j].date.s) >= 0
      /\ (~Dated(documents[i]) /\ ~Dated(documents[j]))
           => Compare(order, documents[i].title.s, documents[j].title.s) <= 0

\* the tokens of Collation in the order of their UTF-16 code units: the
\* upper-case letters come before the lower-case ones
CodeUnits == <<" ", "-", ".md", "01", "06", "2024", "2026", "28",
               "A", "B", "Zed", "foo", "my", "plan", "readme", "sections",
               "x", "y">>

\* C3 as claimed: the order is the lexicographic order of the strings
C3_LexicographicOrder == Listed => OrderedBy(CodeUnits, response.documents)

\* C3 as amended: the order is the one of localeCompare
C3_CollationOrder == Listed => OrderedBy(Collation, response.documents)

\* two dates and an undated document, which the walk met in another order
C3_Witness ==
  /\ Listed /\ response.status = 200
  /\ \E i, j, k \in 1..Len(response.documents) :
       /\ Dated(response.documents[i]) /\ Dated(response.documents[j])
       /\ response.documents[i].date # response.documents[j].date
       /\ ~Dated(response.documents[k])
  /\ TypeLoop(fs, types, [threw |-> FALSE, documents |-> <<>>]).documents
       # response.documents

(***************************************************************************)
(* C4  Metadata precedence: each of title, date, tags and summary of a     *)
(* folder-style document is the frontmatter value when that is present and *)
(* not empty, else the sidecar value when present, else absent (the title  *)
(* falls back to the last path segment with the separators replaced).      *)
(* An empty list of tags and an absent one are taken to be the same.       *)
(***************************************************************************)
Present(v) == v.t # "undefined"

NonEmpty(v) == \/ v.t = "string" /\ v.s # <<>>
               \/ v.t = "array" /\ v.a # <<>>

Resolved(frontmatterValue, sidecarValue, fallback) ==
  IF NonEmpty(frontmatterValue) THEN frontmatterValue
  ELSE IF Present(sidecarValue) THEN sidecarValue
  ELSE fallback

SameValue(a, b) == a = b \/ (~NonEmpty(a) /\ ~NonEmpty(b))

Fallback(p, k) == IF k = "title" THEN Str(ReplaceDashes(p[Len(p)])) ELSE Undef

\* the record d of the folder p follows the precedence, the sidecar being meta
Precedence(d, p, frontmatter, meta) ==
  \A k \in Fields :
    SameValue(d[k], Resolved(frontmatter[k], MetaProp(meta, k), Fallback(p, k)))

FolderDocuments(f) == DocumentFolders(f) \cup SubFolders(f)

C4_Precedence ==
  /\ (Listed /\ response.status = 200) =>
       \A p \in FolderDocuments(fs) :
         \E i \in Records(response.documents, p) :
           Precedence(response.documents[i], p, getBodyContent(fs, p).frontmatter,
                      getMetaFromFile(fs, pathJoin(p, metaJson)))
  /\ (Loaded /\ response.found /\ request.id \in FolderDocuments(fs)) =>
       Precedence(response.document, request.id,
                  getBodyContent(fs, request.id).frontmatter,
                  getMetaFromFile(fs, pathJoin(request.id, metaJson)))

(***************************************************************************)
(* C5  Folder classification: a directory under a type folder that holds   *)
(* body.md or index.md yields one document, id {type}/{dir}, category the  *)
(* directory name under projects and absent elsewhere; a directory without *)
(* one yields no document of its own and one per child directory and per   *)
(* child .md file, id {type}/{dir}/{child without extension}, category the *)
(* directory name.                                                         *)
(***************************************************************************)
Classified(documents, f) ==
  /\ \A p \in DocumentFolders(f) :
       \E i \in Records(documents, p) :
         documents[i].category = (IF p[1] = projects THEN Str(p[2]) ELSE Undef)
  /\ \A p \in SubFolders(f) :
       \E i \in Records(documents, p) : documents[i].category = Str(p[2])
  /\ \A p \in SubFiles(f) :
       \E i \in Records(documents, <<p[1], p[2], WithoutExtension(p[3])>>) :
         documents[i].category = Str(p[2])
  /\ Len(documents) = Cardinality(DocumentFolders(f)) + Cardinality(SubFolders(f))
                      + Cardinality(SubFiles(f)) + Cardinality(FlatFiles(f))

C5_Classification ==
  (Listed /\ response.status = 200) =>
    Classified(response.documents, fs)

(***************************************************************************)
(* C6  A malformed sidecar never raises: whatever meta.json holds, with    *)
(* everything readable, the listing and getDocument complete, the folder's *)
(* document is listed, and a sidecar that is no mapping gives no value.    *)
(***************************************************************************)
IsMapping(meta) == meta.t = "object"

\* what JSON.parse makes of the sidecar of the folder p, {} without one
Sidecar(f, p) ==
  IF pathJoin(p, metaJson) \in DOMAIN f
  THEN JSONparse(f[pathJoin(p, metaJson)].text)
  ELSE [threw |-> FALSE, t |-> "object", data |-> NoData]

Malformed(f, p) == Sidecar(f, p).threw \/ ~IsMapping(Sidecar(f, p))

C6_SidecarNeverRaises ==
  AllReadable(fs) =>
    /\ Listed =>
         /\ response.status = 200
         /\ \A p \in FolderDocuments(fs) :
              /\ Records(response.documents, p) # {}
              /\ Malformed(fs, p) =>
                   \E i \in Records(response.documents, p) :
                     Precedence(response.documents[i], p,
                                getBodyContent(fs, p).frontmatter, EmptyObject)
    /\ (Loaded /\ request.id \in FolderDocuments(fs)) =>
         /\ ~response.threw /\ response.found
         /\ Malformed(fs, request.id) =>
              Precedence(response.document, request.id,
                         getBodyContent(fs, request.id).frontmatter, EmptyObject)

(***************************************************************************)
(* C7  Not found: getDocument(id) returns null exactly when neither        *)
(* {root}/{id} nor {root}/{id}.md exists, a Document otherwise, and never  *)
(* raises.                                                                 *)
(***************************************************************************)
Resolves(f, id) ==
  \/ Normalize(id, <<>>) \in DOMAIN f
  \/ AppendMd(Normalize(id, <<>>)) \in DOMAIN f

C7_NotFound ==
  Loaded => /\ ~response.threw
            /\ response.found <=> Resolves(fs, request.id)

(***************************************************************************)
(* C8  Flat-file date default: the document of a markdown file directly    *)
(* under a type folder has the frontmatter date when there is one and the  *)
(* filename without its extension otherwise, and no category; a markdown   *)
(* file in a category folder with no frontmatter date has no date.         *)
(***************************************************************************)
FrontmatterOf(f, p) == matter(f[p].text).data

\* the date claimed for the flat file p
FlatDate(f, p) ==
  IF Present(FrontmatterOf(f, p).date) THEN FrontmatterOf(f, p).date
  ELSE Str(WithoutExtension(p[2]))

\* C8 as claimed, the record of a file being the one with the id the walk gives it
C8_FlatFileDate ==
  (Listed /\ response.status = 200) =>
    /\ \A p \in FlatFiles(fs) :
         \E i \in Records(response.documents, <<p[1], ReplaceMd(p[2])>>) :
           /\ response.documents[i].date = FlatDate(fs, p)
           /\ response.documents[i].category = Undef
    /\ \A p \in SubFiles(fs) :
         ~Present(FrontmatterOf(fs, p).date) =>
           \E i \in Records(response.documents, <<p[1], p[2], ReplaceMd(p[3])>>) :
             response.documents[i].date = Undef

(***************************************************************************)
(* C9  Type invariant: every record of the listing and every Document that *)
(* getDocument returns has a type among project, journal and concept, the  *)
(* singular of the top-level folder its entry lies under.                  *)
(***************************************************************************)
Singular(folder) ==
  CASE folder = projects -> <<"project">>
    [] folder = journals -> <<"journal">>
    [] folder = concepts -> <<"concept">>
    [] OTHER -> <<"none">>

DocumentTypes == {Singular(t) : t \in TypeFolders}

TypeHolds(type, path) ==
  /\ type \in DocumentTypes
  /\ path # <<>> /\ type = Singular(path[1])

C9_TypeInvariant ==
  /\ Listed => \A i \in 1..Len(response.documents) :
                 TypeHolds(response.documents[i].type, response.documents[i].id)
  /\ (Loaded /\ response.found) =>
       TypeHolds(response.document.type, actualPathOf(fs, request.id))

(***************************************************************************)
(* C10  The listing is all or nothing: GET /api/documents answers 200 with *)
(* the complete sorted array of every document found, or, when a failure   *)
(* is raised during the walk, 500 with an error body and no document; it   *)
(* never answers with a part of the list.                                  *)
(***************************************************************************)
\* the sidecars of folder documents that parse to null
NullSidecars(f) ==
  {p \in FolderDocuments(f) : ~Sidecar(f, p).threw /\ Sidecar(f, p).t = "null"}

Complete(documents, f) ==
  /\ Len(documents) = Cardinality(DocumentFolders(f)) + Cardinality(SubFolders(f))
                      + Cardinality(SubFiles(f)) + Cardinality(FlatFiles(f))
  /\ \A p \in FolderDocuments(f) : Records(documents, p) # {}
  /\ OrderedBy(Collation, documents)

C10_AllOrNothing ==
  Listed =>
    \/ /\ response.status = 200 /\ response.error = ""
       /\ Complete(response.documents, fs)
    \/ /\ response.status = 500 /\ response.error # ""
       /\ response.documents = <<>>
       /\ ~AllReadable(fs) \/ NullSidecars(fs) # {}

\* a failure was raised when the walk had already collected a document
C10_Witness ==
  /\ Listed /\ response.status = 500
  /\ TypeLoop(fs, types, [threw |-> FALSE, documents |-> <<>>]).documents # <<>>

(***************************************************************************)
(* C11  Search overrides tabs: in the list view, whatever tabs were        *)
(* selected and whatever was typed, with a query that is not empty the     *)
(* documents displayed are exactly those whose title, summary or one tag   *)
(* contains the query as a substring regardless of case, whatever the tab; *)
(* with an empty query they are all documents for the tab `all` and        *)
(* exactly the documents of the tab's type for another tab.                *)
(***************************************************************************)
SameLetter(a, b) ==
  a = b \/ \E k \in 1..26 : {a, b} = {UpperCase[k], LowerCase[k]}

\* text contains q as a substring, regardless of case
Contains(text, q) ==
  \E i \in 0..(Len(text) - Len(q)) :
    \A k \in 1..Len(q) : SameLetter(text[i + k], q[k])

Found11(doc, q) ==
  \/ Contains(Spell(doc.title.s), q)
  \/ Present(doc.summary) /\ Contains(Spell(doc.summary.s), q)
  \/ \E i \in 1..Len(doc.tags.a) : Contains(Spell(doc.tags.a[i]), q)

\* the documents the view holds that are to be displayed
ToDisplay(h, doc) ==
  IF h.searchQuery # <<>> THEN Found11(doc, h.searchQuery)
  ELSE h.activeTab = all \/ doc.type = Singular(h.activeTab)

Occurrences(cards, doc) == Cardinality({i \in 1..Len(cards) : cards[i] = doc})

\* the cards are exactly the documents of h that are to be displayed
Displays(cards, h) ==
  /\ \A i \in 1..Len(cards) : ToDisplay(h, cards[i])
  /\ \A i \in 1..Len(h.documents) :
       Occurrences(cards, h.documents[i])
         = IF ToDisplay(h, h.documents[i])
           THEN Occurrences(h.documents, h.documents[i]) ELSE 0

C11_SearchOverridesTabs == Displays(render(home).cards, home)

(***************************************************************************)
(* C12  Loader body resolution: when getDocument(id) resolves to a         *)
(* directory, the content is the body of body.md if it exists, else of     *)
(* index.md if it exists, else the empty string, and sections is the list  *)
(* of the .md filenames of the `sections` subdirectory without their       *)
(* extension, empty without that subdirectory; when it resolves to a file, *)
(* the content is the file's body, no sidecar is consulted and no sections *)
(* are returned.                                                           *)
(***************************************************************************)
\* the body of the text at p, behind its frontmatter block
BodyOf(f, p) == f[p].text.body

PrimaryBody(f, p) ==
  IF pathJoin(p, bodyMd) \in DOMAIN f THEN BodyOf(f, pathJoin(p, bodyMd))
  ELSE IF pathJoin(p, indexMd) \in DOMAIN f THEN BodyOf(f, pathJoin(p, indexMd))
  ELSE ""

RECURSIVE Stripped(_)
\* the names that end in .md, without that extension
Stripped(names) ==
  IF names = <<>> THEN <<>>
  ELSE (IF EndsWithMd(Head(names)) THEN <<WithoutExtension(Head(names))>> ELSE <<>>)
       \o Stripped(Tail(names))

SectionsOf(f, p) ==
  IF pathJoin(p, sectionsDir) \in DOMAIN f
  THEN Stripped(SetToSeq(Children(f, pathJoin(p, sectionsDir))))
  ELSE <<>>

\* the tree without the meta.json files, the one at p excepted
WithoutSidecars(f, p) ==
  [q \in {r \in DOMAIN f : r = <<>> \/ r = p \/ r[Len(r)] # metaJson} |-> f[q]]

BodyResolved(f, id, p, r) ==
  IF f[p].kind = "dir"
  THEN /\ r.document.content = PrimaryBody(f, p)
       /\ r.document.sections = Arr(SectionsOf(f, p))
  ELSE /\ r.document.content = BodyOf(f, p)
       /\ r.document.sections = Undef
       /\ r = getDocument(WithoutSidecars(f, p), id)

C12_BodyResolution ==
  (Loaded /\ response.found) =>
    BodyResolved(fs, request.id, actualPathOf(fs, request.id),
                 [threw |-> response.threw, found |-> response.found,
                  document |-> response.document])

(***************************************************************************)
(* C13  Root containment: for every identifier passed to getDocument, one  *)
(* with `..` segments or the empty string included, every location that is *)
(* tested for existence or read lies inside the root directory, and a      *)
(* Document is returned only for a location under one of the three type    *)
(* folders.                                                                *)
(***************************************************************************)
\* the location p, relative to the root, lies inside the root
Inside(p) == p = <<>> \/ p[1] # dotdot

\* the location p lies under projects, journals or concepts
UnderTypeFolder(p) == Len(p) >= 2 /\ p[1] \in TypeFolders

C13_RootContainment ==
  Loaded =>
    /\ \A p \in touched(fs, request.id) : Inside(p)
    /\ response.found => UnderTypeFolder(actualPathOf(fs, request.id))

====
